---- MODULE Spec2Model ----
(***************************************************************************)
(* Model of the image editor facade (src/js/imageEditor.js): the mode      *)
(* state machine (_state), the canvas event handlers and the command       *)
(* routing through the Invoker.  The Invoker, the command factory and the  *)
(* per-tool components are not part of imageEditor.js; they are modelled   *)
(* from the design document (sections 4.1, 4.2, 5 and 6).                  *)
(*                                                                         *)
(* The editor is a record e; every method is an operator from editor       *)
(* records to editor records, so that a method that calls another one is   *)
(* the composition of the two.  e.log collects, for one public call, the   *)
(* notifications fired and the collaborator calls made, in order, and      *)
(* e.thrown tells whether the call ended by a failure reaching the caller. *)
(***************************************************************************)
EXTENDS Integers, Sequences, FiniteSets, TLC

VARIABLES
    state,       \* this._state
    undoStack,   \* Invoker: undo history, top is the last element
    redoStack,   \* Invoker: redo history, top is the last element
    objs,        \* every object created so far: id -> [type, text]
    canvas,      \* ids of the objects on the canvas
    stamped,     \* ids of the objects that carry a stamp
    selection,   \* this._canvas.selection
    cursor,      \* this._canvas.defaultCursor
    listening,   \* whether this._listener is attached to 'mouse:down'
    cropping,    \* crop component started and not ended (its crop zone is on the canvas)
    region,      \* whether a crop region has been drawn
    drawing,     \* free-drawing component started and not ended
    image,       \* main component: the loaded image, NoImage when none
    angle,       \* image angle
    flipX,       \* image.flipX
    flipY,       \* image.flipY
    nextCmd,     \* number of commands created so far
    rt,          \* observer of one run of invokes followed by undos
    ui           \* a listener of the editor's notifications

vars == <<state, undoStack, redoStack, objs, canvas, stamped, selection,
          cursor, listening, cropping, region, drawing, image, angle, flipX, flipY,
          nextCmd, rt, ui>>

(***************************************************************************)
(* Bounds of the model.                                                    *)
(***************************************************************************)
MaxCmds == 2

(***************************************************************************)
(* Inputs.                                                                 *)
(***************************************************************************)
RotateAngles == {10, -95}
SetAngles == {5}
FlipTypes == {"flipX", "flipY", "reset"}
Urls == {"", "u", "bad"}
Names == {"", "n"}
Texts == {"", "t"}
KeyCodes == {"Z", "Y"}
NoImage == [name |-> "", url |-> ""]
NoStore == [angle |-> 0, flipX |-> FALSE, flipY |-> FALSE, image |-> NoImage, objs |-> {}]

NORMAL == "NORMAL"
CROP == "CROP"
FREE_DRAWING == "FREE_DRAWING"
TEXT == "TEXT"

(***************************************************************************)
(* The editor as one record.                                               *)
(***************************************************************************)
Editor ==
    [state |-> state, undoStack |-> undoStack, redoStack |-> redoStack,
     objs |-> objs, canvas |-> canvas, stamped |-> stamped,
     selection |-> selection, cursor |-> cursor, listening |-> listening,
     cropping |-> cropping, region |-> region, drawing |-> drawing,
     image |-> image, angle |-> angle, flipX |-> flipX, flipY |-> flipY,
     nextCmd |-> nextCmd, log |-> <<>>, thrown |-> FALSE]

Push(s, x) == Append(s, x)
Top(s) == s[Len(s)]
Pop(s) == SubSeq(s, 1, Len(s) - 1)

\* A log entry: k is "fire" (a notification), "component" (a call of a per-tool
\* component) or "canvas" (a call of a canvas method); num and str are the payload.
\* undo and redo are, for a notification, the ids of the commands a listener finds
\* on top of the two stacks when it is notified (0 for an empty stack).
Entry(k, name, num, str) ==
    [k |-> k, n |-> name, num |-> num, str |-> str, undo |-> 0, redo |-> 0]

TopId(s) == IF s = <<>> THEN 0 ELSE Top(s).id

\* tui.util.CustomEvents fire with a payload: a notification to the editor's listeners.
fireWith(e, name, num, str) ==
    [e EXCEPT !.log = Append(@, [Entry("fire", name, num, str)
                                     EXCEPT !.undo = TopId(e.undoStack),
                                            !.redo = TopId(e.redoStack)])]

fire(e, name) ==
    fireWith(e, name, 0, "")

\* A call of a method of a per-tool component.
component(e, name) ==
    [e EXCEPT !.log = Append(@, Entry("component", name, 0, ""))]

\* A call of a method of the fabric canvas.
canvasCall(e, name) ==
    [e EXCEPT !.log = Append(@, Entry("canvas", name, 0, ""))]

\* The moment a command is executed or pushed onto the undo stack, with the mode
\* the editor is in at that moment.
mark(e, what, id) ==
    [e EXCEPT !.log = Append(@, Entry("mark", what, id, e.state))]

\* A failure that reaches the caller of the public method.
throw(e) ==
    [e EXCEPT !.thrown = TRUE]

getCurrentState(e) == e.state

(***************************************************************************)
(* _attachInvokerEvents: the four stack notifications of the Invoker are   *)
(* forwarded to the editor's own listeners under the same names.           *)
(***************************************************************************)
\* _attachInvokerEvents without the forwarding of emptyRedoStack.
invokerFire_dropsEmptyRedo(e, name) ==
    IF name = "emptyRedoStack" THEN e ELSE fire(e, name)

\* _attachInvokerEvents without the forwarding of pushUndoStack.
invokerFire_dropsPush(e, name) ==
    IF name = "pushUndoStack" THEN e ELSE fire(e, name)

invokerFire(e, name) ==
    fire(e, name)

(***************************************************************************)
(* Command factory (design document 4.1).  A command is                    *)
(* [id, kind, type, num, obj, name, url, store].                           *)
(***************************************************************************)
NewCommand(e, kind, type, num, obj, name, url) ==
    [id |-> e.nextCmd + 1, kind |-> kind, type |-> type, num |-> num, obj |-> obj,
     name |-> name, url |-> url, store |-> NoStore]

\* commandFactory.create: add-object commands mark their object as tracked.
create(e, kind, obj) ==
    [e EXCEPT !.nextCmd = @ + 1,
              !.stamped = IF kind = "addObject" THEN @ \cup {obj} ELSE @]

(***************************************************************************)
(* Invoker stacks (design document 4.2).                                   *)
(***************************************************************************)
\* Invoker.pushUndoStack: push and notify.
pushUndoStack(e, command) ==
    invokerFire(mark([e EXCEPT !.undoStack = Push(@, command)], "push", command.id),
                "pushUndoStack")

\* Invoker.pushRedoStack: push and notify.
pushRedoStack(e, command) ==
    invokerFire([e EXCEPT !.redoStack = Push(@, command)], "pushRedoStack")

\* Invoker.clearRedoStack: discard all entries, notify if there were any.
Invoker_clearRedoStack(e) ==
    IF e.redoStack = <<>> THEN e
    ELSE invokerFire([e EXCEPT !.redoStack = <<>>], "emptyRedoStack")

\* Invoker.clearUndoStack: discard all entries, notify if there were any.
Invoker_clearUndoStack(e) ==
    IF e.undoStack = <<>> THEN e
    ELSE invokerFire([e EXCEPT !.undoStack = <<>>], "emptyUndoStack")

(***************************************************************************)
(* Canvas event handlers of the editor (_attachCanvasEvents).  Object 0 is *)
(* the crop zone.                                                          *)
(***************************************************************************)
isType(e, obj, type) ==
    IF obj = 0 THEN type = "cropzone" ELSE e.objs[obj].type = type

hasStamp(e, obj) == obj \in e.stamped

\* objectAdded recording every object, stamped or not.
objectAdded_ignoresStamp(e, obj) ==
    IF isType(e, obj, "cropzone") THEN e
    ELSE LET command == NewCommand(e, "addObject", "", 0, obj, "", "")
         IN  fireWith(Invoker_clearRedoStack(
                          pushUndoStack(create(e, "addObject", obj), command)),
                      "addObject", obj, "")

\* objectAdded recording the command without clearing the redo stack.
objectAdded_keepsRedo(e, obj) ==
    IF isType(e, obj, "cropzone") THEN e
    ELSE LET command == NewCommand(e, "addObject", "", 0, obj, "", "")
             e1 == IF ~hasStamp(e, obj)
                   THEN pushUndoStack(create(e, "addObject", obj), command)
                   ELSE e
         IN  fireWith(e1, "addObject", obj, "")

\* 'object:added': an object without a stamp is recorded as an add-object command.
objectAdded(e, obj) ==
    IF isType(e, obj, "cropzone") THEN e
    ELSE LET command == NewCommand(e, "addObject", "", 0, obj, "", "")
             e1 == IF ~hasStamp(e, obj)
                   THEN Invoker_clearRedoStack(
                            pushUndoStack(create(e, "addObject", obj), command))
                   ELSE e
         IN  fireWith(e1, "addObject", obj, "")

\* 'object:removed'
objectRemoved(e, obj) ==
    fireWith(e, "removeObject", obj, "")

(***************************************************************************)
(* The canvas (design document 6): adding or removing an object notifies   *)
(* the editor's handlers.                                                  *)
(***************************************************************************)
canvasAdd(e, obj) ==
    objectAdded([e EXCEPT !.canvas = @ \cup {obj}], obj)

canvasRemove(e, obj) ==
    objectRemoved([e EXCEPT !.canvas = @ \ {obj}], obj)

Min(S) == CHOOSE x \in S : \A y \in S : x <= y

RECURSIVE canvasAddAll(_, _)
canvasAddAll(e, S) ==
    IF S = {} THEN e
    ELSE canvasAddAll(canvasAdd(e, Min(S)), S \ {Min(S)})

RECURSIVE canvasRemoveAll(_, _)
canvasRemoveAll(e, S) ==
    IF S = {} THEN e
    ELSE canvasRemoveAll(canvasRemove(e, Min(S)), S \ {Min(S)})

(***************************************************************************)
(* The actions of the command catalog (design document 4.1).  Each returns *)
(* [e, ok, c, res]: the editor after the action, whether the action        *)
(* succeeded, the command with what it stored, and the result payload.     *)
(* An image that cannot be loaded (the url "bad") is a load that succeeds  *)
(* with a null result and leaves no image (design document 4.1 and 7).     *)
(***************************************************************************)
Res(null, num, str) == [null |-> null, num |-> num, str |-> str]
Done(e, c, res) == [e |-> e, ok |-> TRUE, c |-> c, res |-> res]
Failed(e, c) == [e |-> e, ok |-> FALSE, c |-> c, res |-> Res(TRUE, 0, "")]

Flipped(e, type) ==
    CASE type = "flipX" -> [e EXCEPT !.flipX = ~@]
      [] type = "flipY" -> [e EXCEPT !.flipY = ~@]
      [] OTHER -> [e EXCEPT !.flipX = FALSE, !.flipY = FALSE]

Rotated(e, type, a) ==
    IF type = "rotate" THEN [e EXCEPT !.angle = @ + a] ELSE [e EXCEPT !.angle = a]

CmdExecute(e, c) ==
    CASE c.kind = "loadImage" ->
           IF c.url = "bad"
           THEN Done([e EXCEPT !.image = NoImage],
                     [c EXCEPT !.store.image = e.image], Res(TRUE, 0, ""))
           ELSE Done([e EXCEPT !.image = [name |-> c.name, url |-> c.url]],
                     [c EXCEPT !.store.image = e.image], Res(FALSE, 0, c.name))
      [] c.kind = "clearObjects" ->
           Done(canvasRemoveAll(e, e.canvas \ {0}),
                [c EXCEPT !.store.objs = e.canvas \ {0}], Res(FALSE, 0, ""))
      [] c.kind = "addObject" ->
           IF c.obj \in e.canvas THEN Failed(e, c)
           ELSE Done(canvasAdd(e, c.obj), c, Res(FALSE, c.obj, ""))
      [] c.kind = "removeObject" ->
           IF c.obj = 0 \/ c.obj \notin e.canvas THEN Failed(e, c)
           ELSE Done(canvasRemove(e, c.obj), c, Res(FALSE, c.obj, ""))
      [] c.kind = "flipImage" ->
           Done(Flipped(e, c.type),
                [c EXCEPT !.store.flipX = e.flipX, !.store.flipY = e.flipY],
                Res(FALSE, e.angle, c.type))
      [] c.kind = "rotateImage" ->
           Done(Rotated(e, c.type, c.num), [c EXCEPT !.store.angle = e.angle],
                Res(FALSE, Rotated(e, c.type, c.num).angle, ""))

CmdUndo(e, c) ==
    CASE c.kind = "loadImage" ->
           Done([e EXCEPT !.image = c.store.image], c,
                Res(c.store.image = NoImage, 0, c.store.image.name))
      [] c.kind = "clearObjects" ->
           Done(canvasAddAll(e, c.store.objs), c, Res(FALSE, 0, ""))
      [] c.kind = "addObject" ->
           IF c.obj \notin e.canvas THEN Failed(e, c)
           ELSE Done(canvasRemove(e, c.obj), c, Res(FALSE, c.obj, ""))
      [] c.kind = "removeObject" ->
           IF c.obj \in e.canvas THEN Failed(e, c)
           ELSE Done(canvasAdd(e, c.obj), c, Res(FALSE, c.obj, ""))
      [] c.kind = "flipImage" ->
           Done([e EXCEPT !.flipX = c.store.flipX, !.flipY = c.store.flipY], c,
                Res(FALSE, e.angle, c.type))
      [] c.kind = "rotateImage" ->
           Done([e EXCEPT !.angle = c.store.angle], c, Res(FALSE, c.store.angle, ""))
(***************************************************************************)
(* On-apply callbacks the editor registers on its commands                 *)
(* (setExecuteCallback / setUndoCallback).                                 *)
(***************************************************************************)
\* _callbackAfterImageLoading: reads oImage.width, so a null oImage is a TypeError.
callbackAfterImageLoading(e, oImage) ==
    IF oImage.null THEN throw(e)
    ELSE fireWith(e, "loadImage", 0, oImage.str)

\* The undo callback handing every result to _callbackAfterImageLoading.
loadImageUndoCallback_unguarded(e, oImage) ==
    callbackAfterImageLoading(e, oImage)

\* The undo callback of loadImageFromURL.
loadImageUndoCallback(e, oImage) ==
    IF ~oImage.null THEN callbackAfterImageLoading(e, oImage)
    ELSE fire(e, "clearImage")

executeCallback(e, c, res) ==
    CASE c.kind = "loadImage" -> callbackAfterImageLoading(e, res)
      [] c.kind = "clearObjects" -> fire(e, "clearObjects")
      [] c.kind = "flipImage" -> fireWith(e, "flipImage", res.num, res.str)
      [] c.kind = "rotateImage" -> fireWith(e, "rotateImage", res.num, "")
      [] OTHER -> e

undoCallback(e, c, res) ==
    CASE c.kind = "loadImage" -> loadImageUndoCallback(e, res)
      [] c.kind = "flipImage" -> fireWith(e, "flipImage", res.num, res.str)
      [] c.kind = "rotateImage" -> fireWith(e, "rotateImage", res.num, "")
      [] OTHER -> e

(***************************************************************************)
(* Invoker.invoke / undo / redo (design document 4.2).                     *)
(***************************************************************************)
invoke(e, command) ==
    LET r == CmdExecute(mark(e, "execute", command.id), command)
    IN  IF ~r.ok THEN throw(r.e)
        ELSE executeCallback(
                 invokerFire(
                     Invoker_clearRedoStack(
                         mark([r.e EXCEPT !.undoStack = Push(@, r.c)], "push", r.c.id)),
                     "pushUndoStack"),
                 r.c, r.res)

Invoker_undo(e) ==
    IF e.undoStack = <<>> THEN e
    ELSE LET r == CmdUndo(e, Top(e.undoStack))
             e1 == pushRedoStack([r.e EXCEPT !.undoStack = Pop(@)], r.c)
             e2 == IF e1.undoStack = <<>> THEN invokerFire(e1, "emptyUndoStack") ELSE e1
         IN  IF ~r.ok THEN throw(r.e) ELSE undoCallback(e2, r.c, r.res)

Invoker_redo(e) ==
    IF e.redoStack = <<>> THEN e
    ELSE LET r == CmdExecute(e, Top(e.redoStack))
             e1 == pushUndoStack([r.e EXCEPT !.redoStack = Pop(@)], r.c)
             e2 == IF e1.redoStack = <<>> THEN invokerFire(e1, "emptyRedoStack") ELSE e1
         IN  IF ~r.ok THEN throw(r.e) ELSE executeCallback(e2, r.c, r.res)

(***************************************************************************)
(* Per-tool components (design document 5 and 6): start and end are        *)
(* idempotent.                                                             *)
(***************************************************************************)
\* Cropper.start: puts the crop zone on the canvas.
cropperStart(e) ==
    LET e1 == component(e, "cropper.start")
    IN  IF e1.cropping THEN e1
        ELSE canvasAdd([e1 EXCEPT !.cropping = TRUE, !.region = FALSE], 0)

\* The descriptor Cropper.end hands back: only when applying a drawn region.
cropData(e, isApplying) ==
    IF e.cropping /\ isApplying /\ e.region
    THEN [null |-> FALSE, url |-> "cropped", imageName |-> e.image.name]
    ELSE [null |-> TRUE, url |-> "", imageName |-> ""]

\* Cropper.end: takes the crop zone off the canvas.
cropperEnd(e, isApplying) ==
    LET e1 == component(e, "cropper.end")
    IN  IF ~e1.cropping THEN e1
        ELSE canvasRemove([e1 EXCEPT !.cropping = FALSE, !.region = FALSE], 0)

freeDrawingStart(e) ==
    [component(e, "freeDrawing.start") EXCEPT !.drawing = TRUE]

\* A start call of a component that fails: the call is made, raises, and has
\* started nothing.
startFailing(e, name) ==
    throw(component(e, name))

freeDrawingEnd(e) ==
    [component(e, "freeDrawing.end") EXCEPT !.drawing = FALSE]

\* Text.add / Icon.add: a new object is put on the canvas.
componentAdd(e, name, type, text) ==
    LET e1 == component(e, name)
        obj == Len(e1.objs) + 1
    IN  canvasAdd([e1 EXCEPT !.objs = Append(@, [type |-> type, text |-> text])], obj)

\* Text.change
textChange(e, obj, text) ==
    [component(e, "text.change") EXCEPT !.objs[obj].text = text]
(***************************************************************************)
(* The editor's methods (imageEditor.js).                                  *)
(***************************************************************************)
deactivateAll(e) ==
    canvasCall(canvasCall(e, "canvas.deactivateAll"), "canvas.renderAll")

endTextMode(e) ==
    LET e1 == IF getCurrentState(e) = TEXT THEN [e EXCEPT !.state = NORMAL] ELSE e
        e2 == canvasCall(e1, "canvas.forEachObject")
        empty == {o \in e2.canvas : isType(e2, o, "text") /\ e2.objs[o].text = ""}
        e3 == [canvasRemoveAll(e2, empty) EXCEPT !.selection = TRUE,
                                                 !.cursor = "default"]
    IN  [canvasCall(e3, "canvas.off") EXCEPT !.listening = FALSE]

\* endFreeDrawing without its guard on the current state.
endFreeDrawing_unguarded(e) ==
    fire([freeDrawingEnd(e) EXCEPT !.state = NORMAL], "endFreeDrawing")

endFreeDrawing(e) ==
    IF getCurrentState(e) # FREE_DRAWING THEN e
    ELSE fire([freeDrawingEnd(e) EXCEPT !.state = NORMAL], "endFreeDrawing")

RECURSIVE endCropping(_, _)

\* endAll applying the crop instead of cancelling it.
endAll_appliesCrop(e) ==
    [deactivateAll(endCropping(endFreeDrawing(endTextMode(e)), TRUE)) EXCEPT !.state = NORMAL]

endAll(e) ==
    [deactivateAll(endCropping(endFreeDrawing(endTextMode(e)), FALSE))
        EXCEPT !.state = NORMAL]

\* execute invoking the command without leaving the active mode.
execute_keepsMode(e, command) ==
    invoke(e, command)

execute(e, command) ==
    invoke(endAll(e), command)

\* undo swallowing a failure of the Invoker.
undo_swallows(e) ==
    [Invoker_undo(endAll(e)) EXCEPT !.thrown = FALSE]

\* undo calling the Invoker's redo.
undo_redoes(e) ==
    Invoker_redo(endAll(e))

undo(e) ==
    Invoker_undo(endAll(e))

\* redo never reaching the Invoker.
redo_endsOnly(e) ==
    endAll(e)

redo(e) ==
    Invoker_redo(endAll(e))

loadImageFromURL(e, url, imageName) ==
    IF imageName = "" \/ url = "" THEN e
    ELSE execute(create(e, "loadImage", 0),
                 NewCommand(e, "loadImage", "", 0, 0, imageName, url))

\* URL.createObjectURL(imgFile) is the url "u"; file is the file's name, "" for no file.
loadImageFromFile(e, file, imageName) ==
    IF file = "" THEN e
    ELSE loadImageFromURL(e, "u", IF imageName # "" THEN imageName ELSE file)

clearObjects(e) ==
    execute(create(e, "clearObjects", 0),
            NewCommand(e, "clearObjects", "", 0, 0, "", ""))

\* startCropping putting the mode back when cropper.start() fails.
startCroppingWith_rollsBack(e, startFails) ==
    IF getCurrentState(e) = CROP THEN e
    ELSE LET e1 == [endAll(e) EXCEPT !.state = CROP]
         IN  IF startFails
             THEN [startFailing(e1, "cropper.start") EXCEPT !.state = e.state]
             ELSE fire(cropperStart(e1), "startCropping")

\* startCropping, with cropper.start() failing (startFails) or not: a failure
\* leaves the method before the notification.
startCroppingWith(e, startFails) ==
    IF getCurrentState(e) = CROP THEN e
    ELSE LET e1 == [endAll(e) EXCEPT !.state = CROP]
         IN  IF startFails THEN startFailing(e1, "cropper.start")
             ELSE fire(cropperStart(e1), "startCropping")

startCropping(e) ==
    startCroppingWith(e, FALSE)

\* endCropping leaving the state as it is.
endCropping_keepsState(e, isApplying) ==
    IF getCurrentState(e) # CROP THEN e
    ELSE LET data == cropData(e, isApplying)
             e2 == fire(cropperEnd(e, isApplying), "endCropping")
         IN  IF ~data.null THEN loadImageFromURL(e2, data.url, data.imageName)
             ELSE e2

endCropping(e, isApplying) ==
    IF getCurrentState(e) # CROP THEN e
    ELSE LET e1 == [e EXCEPT !.state = NORMAL]
             data == cropData(e1, isApplying)
             e2 == fire(cropperEnd(e1, isApplying), "endCropping")
         IN  IF ~data.null THEN loadImageFromURL(e2, data.url, data.imageName)
             ELSE e2

flip(e, type) ==
    execute(create(e, "flipImage", 0),
            NewCommand(e, "flipImage", type, 0, 0, "", ""))

\* rotate and setAngle both setting the angle.
rotate_setsAngle(e, type, a) ==
    execute(create(e, "rotateImage", 0),
            NewCommand(e, "rotateImage", "setAngle", a, 0, "", ""))

rotate(e, type, a) ==
    execute(create(e, "rotateImage", 0),
            NewCommand(e, "rotateImage", type, a, 0, "", ""))

\* startFreeDrawing, with freeDrawing.start() failing (startFails) or not: a
\* failure leaves the method before the state is assigned.
startFreeDrawingWith(e, startFails) ==
    IF getCurrentState(e) = FREE_DRAWING THEN e
    ELSE IF startFails THEN startFailing(endAll(e), "freeDrawing.start")
    ELSE fire([freeDrawingStart(endAll(e)) EXCEPT !.state = FREE_DRAWING],
              "startFreeDrawing")

startFreeDrawing(e) ==
    startFreeDrawingWith(e, FALSE)

setBrush(e) ==
    component(e, "freeDrawing.setBrush")

startTextMode(e) ==
    LET e1 == endAll(e)
    IN  IF getCurrentState(e1) = TEXT THEN e1
        ELSE [canvasCall([e1 EXCEPT !.state = TEXT, !.selection = FALSE,
                                    !.cursor = "text"], "canvas.on")
                 EXCEPT !.listening = TRUE]

addText(e, text) ==
    LET e1 == IF getCurrentState(e) # TEXT THEN [e EXCEPT !.state = TEXT] ELSE e
    IN  componentAdd(e1, "text.add", "text", text)

\* activeObj is what canvas.getActiveObject() returns: an object of the canvas, 0 for none.
changeText(e, activeObj, text) ==
    LET e1 == canvasCall(e, "canvas.getActiveObject")
    IN  IF getCurrentState(e1) # TEXT \/ activeObj = 0 THEN e1
        ELSE textChange(e1, activeObj, text)

changeTextStyle(e, activeObj) ==
    LET e1 == canvasCall(e, "canvas.getActiveObject")
    IN  IF getCurrentState(e1) # TEXT \/ activeObj = 0 THEN e1
        ELSE component(e1, "text.setStyle")

\* _onFabricMouseDown: target is the object under the pointer, 0 when none.
onFabricMouseDown(e, target) ==
    LET e1 == canvasCall(e, "canvas.getPointer")
    IN  IF target # 0 /\ ~isType(e1, target, "text") THEN e1
        ELSE fireWith(e1, "activateText", target,
                      IF target # 0 THEN e1.objs[target].text ELSE "")

\* Icon.add: an icon is a path object (the editor itself tells only crop zones
\* and text objects apart).
addIcon(e) ==
    componentAdd(e, "icon.add", "path", "")

changeIconColor(e) ==
    component(e, "icon.setColor")

\* target is canvas.getActiveObject() || canvas.getActiveGroup(), 0 for none.
removeActiveObject(e, target) ==
    LET e1 == canvasCall(e, "canvas.getActiveObject")
        e2 == IF target = 0 THEN canvasCall(e1, "canvas.getActiveGroup") ELSE e1
    IN  execute(create(e2, "removeObject", target),
                NewCommand(e2, "removeObject", "", 0, target, "", ""))

\* clearUndoStack notifying whether or not the stack held anything.
clearUndoStack_alwaysNotifies(e) ==
    invokerFire([e EXCEPT !.undoStack = <<>>], "emptyUndoStack")

clearUndoStack(e) ==
    Invoker_clearUndoStack(e)

\* clearRedoStack ending every mode first.
clearRedoStack_endsAll(e) ==
    Invoker_clearRedoStack(endAll(e))

clearRedoStack(e) ==
    Invoker_clearRedoStack(e)

\* _onKeyDown: mod is e.ctrlKey || e.metaKey.
onKeyDown(e, mod, keyCode) ==
    LET e1 == IF mod /\ keyCode = "Z" THEN undo(e) ELSE e
    IN  IF mod /\ keyCode = "Y" THEN redo(e1) ELSE e1

(***************************************************************************)
(* The user's gestures on the canvas (design document 6).                  *)
(***************************************************************************)
\* A mouse press on an object (0: on none) runs the 'mouse:down' listener when
\* one is attached.
mouseDown(e, target) ==
    IF e.listening THEN onFabricMouseDown(e, target) ELSE e

\* A stroke drawn while the free-drawing component is started: 'object:added'
\* and then 'path:created' (_onPathCreated only styles the path).
drawPath(e) ==
    canvasAdd([e EXCEPT !.objs = Append(@, [type |-> "path", text |-> ""])],
              Len(e.objs) + 1)

dragRegion(e) ==
    [e EXCEPT !.region = TRUE]

(***************************************************************************)
(* State machine.                                                          *)
(***************************************************************************)
InitEditor ==
    [state |-> NORMAL, undoStack |-> <<>>, redoStack |-> <<>>, objs |-> <<>>,
     canvas |-> {}, stamped |-> {}, selection |-> TRUE,
     cursor |-> "default", listening |-> FALSE, cropping |-> FALSE,
     region |-> FALSE, drawing |-> FALSE, image |-> NoImage, angle |-> 0,
     flipX |-> FALSE, flipY |-> FALSE, nextCmd |-> 0, log |-> <<>>,
     thrown |-> FALSE]

Set(e) ==
    /\ state' = e.state /\ undoStack' = e.undoStack /\ redoStack' = e.redoStack
    /\ objs' = e.objs /\ canvas' = e.canvas /\ stamped' = e.stamped
    /\ selection' = e.selection /\ cursor' = e.cursor
    /\ listening' = e.listening /\ cropping' = e.cropping /\ region' = e.region
    /\ drawing' = e.drawing /\ image' = e.image /\ angle' = e.angle
    /\ flipX' = e.flipX /\ flipY' = e.flipY /\ nextCmd' = e.nextCmd

\* The number of commands created stays within the bound.
Bounded(e) == e.nextCmd <= MaxCmds

\* The observer of the commands invoked and undone.  It is idle unless switched
\* on; once on, "execute" is a public call that routes a command through
\* execute(), "undo" a call of undo(), "redo" a call of redo(); any other call
\* ends what is being observed.
\*   phase: "idle", "invoke" (counting invokes) or "undo" (counting undos)
\*   len:   N, the invokes of the run;  n: the invokes not yet undone
\*   doc, undo: the document and the undo stack before the first invoke
\*   failed: an undo() of the run raised a failure
\*   step:  "invoked", then "undone" by the next call, then "redone" by the next
\*   last:  the document and the stacks right after the latest invoke
\*   broke: the undo() or the redo() after the latest invoke raised a failure
NoDoc == [image |-> NoImage, angle |-> 0, flipX |-> FALSE, flipY |-> FALSE, objects |-> {}]
NoSnapshot == [doc |-> NoDoc, undo |-> <<>>, redo |-> <<>>]
Idle(on) ==
    [on |-> on, phase |-> "idle", len |-> 0, n |-> 0, doc |-> NoDoc, undo |-> <<>>,
     failed |-> FALSE, step |-> "none", last |-> NoSnapshot, broke |-> FALSE]

\* The document: the image with its angle and flips, and the objects on the
\* canvas (without the crop zone) with their type and text.
Doc(e) ==
    [image |-> e.image, angle |-> e.angle, flipX |-> e.flipX, flipY |-> e.flipY,
     objects |-> {<<o, e.objs[o]>> : o \in e.canvas \ {0}}]

Snapshot(e) == [doc |-> Doc(e), undo |-> e.undoStack, redo |-> e.redoStack]

Track(kind, e) ==
    IF ~rt.on THEN rt
    ELSE IF kind = "execute" /\ e.nextCmd = nextCmd + 1 /\ ~e.thrown
    THEN [(IF rt.phase = "invoke" THEN [rt EXCEPT !.len = @ + 1, !.n = @ + 1]
           ELSE [Idle(TRUE) EXCEPT !.phase = "invoke", !.len = 1, !.n = 1,
                                   !.doc = Doc(endAll(Editor)), !.undo = undoStack])
             EXCEPT !.step = "invoked", !.last = Snapshot(e), !.broke = FALSE]
    ELSE IF kind = "undo" /\ rt.phase \in {"invoke", "undo"} /\ rt.n > 0
    THEN IF rt.step = "invoked"
         THEN [rt EXCEPT !.phase = "undo", !.n = @ - 1, !.failed = @ \/ e.thrown,
                         !.step = "undone", !.broke = e.thrown]
         ELSE [rt EXCEPT !.phase = "undo", !.n = @ - 1, !.failed = @ \/ e.thrown,
                         !.step = "none", !.last = NoSnapshot, !.broke = FALSE]
    ELSE IF kind = "redo" /\ rt.step = "undone"
    THEN [Idle(TRUE) EXCEPT !.step = "redone", !.last = rt.last,
                            !.broke = rt.broke \/ e.thrown]
    ELSE Idle(TRUE)

\* A listener registered on the editor with on().  Listening to the stacks (on),
\* it keeps a flag per stack, set by the push notification and reset by the empty
\* notification; listening to the tools (tools), it keeps a flag per tool, set by
\* the start notification and reset by the end notification.
\*   dup: during the latest call a start notification came while the tool's flag
\*        was set, or an end notification while it was not
Listener(on, tools) ==
    [on |-> on, tools |-> tools, undoAvailable |-> FALSE, redoAvailable |-> FALSE,
     crop |-> FALSE, draw |-> FALSE, dup |-> FALSE]

Hear(u, name) ==
    IF u.on /\ name \in {"pushUndoStack", "emptyUndoStack"}
    THEN [u EXCEPT !.undoAvailable = (name = "pushUndoStack")]
    ELSE IF u.on /\ name \in {"pushRedoStack", "emptyRedoStack"}
    THEN [u EXCEPT !.redoAvailable = (name = "pushRedoStack")]
    ELSE IF u.tools /\ name = "startCropping"
    THEN [u EXCEPT !.dup = @ \/ u.crop, !.crop = TRUE]
    ELSE IF u.tools /\ name = "endCropping"
    THEN [u EXCEPT !.dup = @ \/ ~u.crop, !.crop = FALSE]
    ELSE IF u.tools /\ name = "startFreeDrawing"
    THEN [u EXCEPT !.dup = @ \/ u.draw, !.draw = TRUE]
    ELSE IF u.tools /\ name = "endFreeDrawing"
    THEN [u EXCEPT !.dup = @ \/ ~u.draw, !.draw = FALSE]
    ELSE u

RECURSIVE HearAll(_, _, _)
HearAll(u, log, i) ==
    IF i > Len(log) THEN u
    ELSE HearAll(IF log[i].k = "fire" THEN Hear(u, log[i].n) ELSE u, log, i + 1)

\* The listener after the notifications of the call e.
Listen(e) ==
    IF ~ui.on /\ ~ui.tools THEN ui ELSE HearAll([ui EXCEPT !.dup = FALSE], e.log, 1)

Observe(kind, e) == rt' = Track(kind, e) /\ ui' = Listen(e)

\* The objects a user can have selected: one of the canvas (not the crop zone), or none.
Selectable == (canvas \ {0}) \cup {0}

Init ==
    /\ state = NORMAL /\ undoStack = <<>> /\ redoStack = <<>>
    /\ objs = <<>> /\ canvas = {} /\ stamped = {}
    /\ selection = TRUE /\ cursor = "default" /\ listening = FALSE
    /\ cropping = FALSE /\ region = FALSE /\ drawing = FALSE
    /\ image = NoImage /\ angle = 0 /\ flipX = FALSE /\ flipY = FALSE
    /\ nextCmd = 0
    /\ rt = Idle(FALSE)
    /\ ui = Listener(FALSE, FALSE)

\* The same editor, observed.
InitRT ==
    /\ state = NORMAL /\ undoStack = <<>> /\ redoStack = <<>>
    /\ objs = <<>> /\ canvas = {} /\ stamped = {}
    /\ selection = TRUE /\ cursor = "default" /\ listening = FALSE
    /\ cropping = FALSE /\ region = FALSE /\ drawing = FALSE
    /\ image = NoImage /\ angle = 0 /\ flipX = FALSE /\ flipY = FALSE
    /\ nextCmd = 0
    /\ rt = Idle(TRUE)
    /\ ui = Listener(FALSE, FALSE)

\* The same editor, with a listener of the stacks registered from the start.
InitUI ==
    /\ state = NORMAL /\ undoStack = <<>> /\ redoStack = <<>>
    /\ objs = <<>> /\ canvas = {} /\ stamped = {}
    /\ selection = TRUE /\ cursor = "default" /\ listening = FALSE
    /\ cropping = FALSE /\ region = FALSE /\ drawing = FALSE
    /\ image = NoImage /\ angle = 0 /\ flipX = FALSE /\ flipY = FALSE
    /\ nextCmd = 0
    /\ rt = Idle(FALSE)
    /\ ui = Listener(TRUE, FALSE)

\* The same editor, with a listener of the tools registered from the start.
InitTools ==
    /\ state = NORMAL /\ undoStack = <<>> /\ redoStack = <<>>
    /\ objs = <<>> /\ canvas = {} /\ stamped = {}
    /\ selection = TRUE /\ cursor = "default" /\ listening = FALSE
    /\ cropping = FALSE /\ region = FALSE /\ drawing = FALSE
    /\ image = NoImage /\ angle = 0 /\ flipX = FALSE /\ flipY = FALSE
    /\ nextCmd = 0
    /\ rt = Idle(FALSE)
    /\ ui = Listener(FALSE, TRUE)

ClearObjects ==
    LET e == clearObjects(Editor)
    IN  Bounded(e) /\ Set(e) /\ Observe("execute", e)
EndAll ==
    LET e == endAll(Editor)
    IN  Bounded(e) /\ Set(e) /\ Observe("other", e)
DeactivateAll ==
    LET e == deactivateAll(Editor)
    IN  Bounded(e) /\ Set(e) /\ Observe("other", e)
Undo ==
    LET e == undo(Editor)
    IN  Bounded(e) /\ Set(e) /\ Observe("undo", e)
Redo ==
    LET e == redo(Editor)
    IN  Bounded(e) /\ Set(e) /\ Observe("redo", e)
LoadImageFromFile ==
    \E file \in Names, name \in Names :
        LET e == loadImageFromFile(Editor, file, name)
        IN  Bounded(e) /\ Set(e) /\ Observe("execute", e)
LoadImageFromURL ==
    \E url \in Urls, name \in Names :
        LET e == loadImageFromURL(Editor, url, name)
        IN  Bounded(e) /\ Set(e) /\ Observe("execute", e)
StartCropping ==
    LET e == startCropping(Editor)
    IN  Bounded(e) /\ Set(e) /\ Observe("other", e)
EndCropping ==
    \E isApplying \in BOOLEAN :
        LET e == endCropping(Editor, isApplying)
        IN  Bounded(e) /\ Set(e) /\ Observe("execute", e)
Flip ==
    \E type \in FlipTypes :
        LET e == flip(Editor, type)
        IN  Bounded(e) /\ Set(e) /\ Observe("execute", e)
Rotate ==
    \E a \in RotateAngles :
        LET e == rotate(Editor, "rotate", a)
        IN  Bounded(e) /\ Set(e) /\ Observe("execute", e)
SetAngle ==
    \E a \in SetAngles :
        LET e == rotate(Editor, "setAngle", a)
        IN  Bounded(e) /\ Set(e) /\ Observe("execute", e)
StartFreeDrawing ==
    LET e == startFreeDrawing(Editor)
    IN  Bounded(e) /\ Set(e) /\ Observe("other", e)
SetBrush ==
    LET e == setBrush(Editor)
    IN  Bounded(e) /\ Set(e) /\ Observe("other", e)
EndFreeDrawing ==
    LET e == endFreeDrawing(Editor)
    IN  Bounded(e) /\ Set(e) /\ Observe("other", e)
StartTextMode ==
    LET e == startTextMode(Editor)
    IN  Bounded(e) /\ Set(e) /\ Observe("other", e)
AddText ==
    \E text \in Texts :
        LET e == addText(Editor, text)
        IN  Bounded(e) /\ Set(e) /\ Observe("other", e)
ChangeText ==
    \E text \in Texts, activeObj \in Selectable :
        LET e == changeText(Editor, activeObj, text)
        IN  Bounded(e) /\ Set(e) /\ Observe("other", e)
ChangeTextStyle ==
    \E activeObj \in Selectable :
        LET e == changeTextStyle(Editor, activeObj)
        IN  Bounded(e) /\ Set(e) /\ Observe("other", e)
EndTextMode ==
    LET e == endTextMode(Editor)
    IN  Bounded(e) /\ Set(e) /\ Observe("other", e)
AddIcon ==
    LET e == addIcon(Editor)
    IN  Bounded(e) /\ Set(e) /\ Observe("other", e)
ChangeIconColor ==
    LET e == changeIconColor(Editor)
    IN  Bounded(e) /\ Set(e) /\ Observe("other", e)
RemoveActiveObject ==
    \E target \in Selectable :
        LET e == removeActiveObject(Editor, target)
        IN  Bounded(e) /\ Set(e) /\ Observe("execute", e)
ClearUndoStack ==
    LET e == clearUndoStack(Editor)
    IN  Bounded(e) /\ Set(e) /\ Observe("other", e)
ClearRedoStack ==
    LET e == clearRedoStack(Editor)
    IN  Bounded(e) /\ Set(e) /\ Observe("other", e)
KeyDown ==
    \E mod \in BOOLEAN, keyCode \in KeyCodes :
        LET e == onKeyDown(Editor, mod, keyCode)
        IN  Bounded(e) /\ Set(e) /\ Observe("other", e)
MouseDown ==
    \E target \in Selectable :
        LET e == mouseDown(Editor, target)
        IN  Bounded(e) /\ Set(e) /\ Observe("other", e)
DrawPath ==
    /\ drawing
    /\ Bounded(drawPath(Editor))
    /\ Set(drawPath(Editor))
    /\ Observe("other", drawPath(Editor))
DragRegion ==
    /\ cropping
    /\ image # NoImage
    /\ Set(dragRegion(Editor))
    /\ Observe("other", dragRegion(Editor))

Next ==
    \/ ClearObjects \/ EndAll \/ DeactivateAll \/ Undo \/ Redo
    \/ LoadImageFromFile \/ LoadImageFromURL \/ StartCropping \/ EndCropping
    \/ Flip \/ Rotate \/ SetAngle
    \/ StartFreeDrawing \/ SetBrush \/ EndFreeDrawing
    \/ StartTextMode \/ AddText \/ ChangeText \/ ChangeTextStyle \/ EndTextMode
    \/ AddIcon \/ ChangeIconColor \/ RemoveActiveObject
    \/ ClearUndoStack \/ ClearRedoStack
    \/ KeyDown \/ MouseDown \/ DrawPath \/ DragRegion

Spec == Init /\ [][Next]_vars

SpecRT == InitRT /\ [][Next]_vars

SpecUI == InitUI /\ [][Next]_vars

SpecTools == InitTools /\ [][Next]_vars

\* The same editor, named once more for each family of properties: new commands,
\* the Invoker's stacks, the on-apply callbacks, rotation.
SpecInvoke == Init /\ [][Next]_vars

SpecStacks == Init /\ [][Next]_vars

SpecApply == Init /\ [][Next]_vars

SpecRotate == Init /\ [][Next]_vars

(***************************************************************************)
(* Reading the record of one public call.                                  *)
(***************************************************************************)
Entries(e, k) == {i \in DOMAIN e.log : e.log[i].k = k}
Fired(e, name) == Cardinality({i \in Entries(e, "fire") : e.log[i].n = name})
Called(e, name) == Cardinality({i \in Entries(e, "component") : e.log[i].n = name})
StackEvents == {"pushUndoStack", "pushRedoStack", "emptyUndoStack", "emptyRedoStack"}
NoStackEvent(e) == \A i \in Entries(e, "fire") : e.log[i].n \notin StackEvents

\* The public calls that route a command through execute(), applied to e.
ExecuteCalls(e) ==
    {clearObjects(e)}
    \cup {loadImageFromURL(e, url, name) : url \in Urls, name \in Names}
    \cup {loadImageFromFile(e, file, name) : file \in Names, name \in Names}
    \cup {endCropping(e, isApplying) : isApplying \in BOOLEAN}
    \cup {flip(e, type) : type \in FlipTypes}
    \cup {rotate(e, "rotate", a) : a \in RotateAngles}
    \cup {rotate(e, "setAngle", a) : a \in SetAngles}
    \cup {removeActiveObject(e, target) : target \in (e.canvas \ {0}) \cup {0}}

\* The calls and gestures that put a new object on the canvas, applied to e.
AddCalls(e) ==
    {addIcon(e)}
    \cup {addText(e, text) : text \in Texts}
    \cup (IF e.drawing THEN {drawPath(e)} ELSE {})

\* A call that created a command and returned normally.
Completed(e0, e) == e.nextCmd = e0.nextCmd + 1 /\ ~e.thrown

(***************************************************************************)
(* C1: after a new mutating action completes (a command routed through     *)
(* execute(), or an untracked object added to the canvas) the new command  *)
(* is the top of the undo stack and the redo stack is empty, whatever the  *)
(* redo stack held before.                                                 *)
(***************************************************************************)
C1_NewCommandOnTopRedoEmpty ==
    \A e \in ExecuteCalls(Editor) \cup AddCalls(Editor) :
        Completed(Editor, e) =>
            /\ e.redoStack = <<>>
            /\ e.undoStack # <<>>
            /\ Top(e.undoStack).id = nextCmd + 1
            /\ Len(e.undoStack) = Len(undoStack) + 1

C1_Witness ==
    /\ redoStack # <<>>
    /\ nextCmd < MaxCmds
    /\ Completed(Editor, addIcon(Editor))
    /\ addIcon(Editor).redoStack = <<>>
    /\ Completed(Editor, rotate(Editor, "rotate", 10))
    /\ Top(rotate(Editor, "rotate", 10).undoStack).kind = "rotateImage"

(***************************************************************************)
(* C2 as claimed: undo() on an empty undo stack leaves the undo stack, the *)
(* redo stack and the mode unchanged, calls no collaborator and emits no   *)
(* notification.                                                           *)
(***************************************************************************)
C2_UndoOnEmptyChangesNothing ==
    undoStack = <<>> =>
        LET e == undo(Editor)
        IN  /\ e.undoStack = undoStack
            /\ e.redoStack = redoStack
            /\ e.state = state
            /\ Entries(e, "component") = {}
            /\ Entries(e, "fire") = {}

(***************************************************************************)
(* C2 amended: undo() on an empty undo stack is endAll(): it leaves both   *)
(* stacks unchanged, runs no command and emits no stack notification, but  *)
(* it leaves the editor in Normal mode, having run the exit actions of the *)
(* mode that was active.                                                   *)
(***************************************************************************)
C2_UndoOnEmptyIsEndAll ==
    undoStack = <<>> =>
        LET e == undo(Editor)
        IN  /\ e.undoStack = undoStack
            /\ e.redoStack = redoStack
            /\ e.state = NORMAL
            /\ ~e.thrown
            /\ NoStackEvent(e)
            /\ Entries(e, "mark") = {}
            /\ e = endAll(Editor)

C2_Witness ==
    /\ undoStack = <<>>
    /\ redoStack # <<>>
    /\ state = CROP
    /\ undo(Editor).state = NORMAL
    /\ Fired(undo(Editor), "endCropping") = 1
    /\ undo(Editor).redoStack = redoStack

(***************************************************************************)
(* C3: after a run of N commands invoked through execute(), each with a    *)
(* correct inverse, N undo() calls bring the document back to what it was  *)
(* before the first invoke and the undo stack back to what it held before  *)
(* the first invoke.                                                       *)
(***************************************************************************)
C3_RoundTrip ==
    rt.phase = "undo" /\ rt.n = 0 =>
        /\ ~rt.failed
        /\ Doc(Editor) = rt.doc
        /\ undoStack = rt.undo

C3_Witness ==
    /\ rt.phase = "undo"
    /\ rt.n = 0
    /\ rt.len = 2
    /\ Len(redoStack) = 2
    /\ Doc(Editor) = rt.doc
    /\ undoStack = rt.undo

(***************************************************************************)
(* C4: redo() right after undo() of a command that was just invoked        *)
(* restores the document and both stacks to what they were right after the *)
(* invoke.                                                                 *)
(***************************************************************************)
C4_RedoAfterUndoRestores ==
    rt.step = "redone" =>
        /\ ~rt.broke
        /\ Doc(Editor) = rt.last.doc
        /\ undoStack = rt.last.undo
        /\ redoStack = rt.last.redo

C4_Witness ==
    /\ rt.step = "redone"
    /\ Top(undoStack).kind = "removeObject"
    /\ redoStack = <<>>
    /\ Doc(Editor) = rt.last.doc
    /\ undoStack = rt.last.undo

\* The calls that enter a mode, applied to e.
Enter(e, mode) ==
    CASE mode = CROP -> {startCropping(e)}
      [] mode = FREE_DRAWING -> {startFreeDrawing(e)}
      [] mode = TEXT -> {startTextMode(e)} \cup {addText(e, text) : text \in Texts}

\* The exit actions of a mode ran exactly once during the call recorded in e.
ExitRanOnce(mode, e) ==
    CASE mode = CROP -> Called(e, "cropper.end") = 1 /\ Fired(e, "endCropping") = 1
      [] mode = FREE_DRAWING ->
             Called(e, "freeDrawing.end") = 1 /\ Fired(e, "endFreeDrawing") = 1
      [] mode = TEXT ->
             Cardinality({i \in Entries(e, "canvas") : e.log[i].n = "canvas.off"}) = 1

(***************************************************************************)
(* C5 as claimed: entering Crop, Free-Drawing or Text (by the start call   *)
(* or by addText) from a different non-Normal mode leaves the target mode  *)
(* active, and the exit actions of the previous mode (its collaborator's   *)
(* end call and its end notification) have run exactly once.               *)
(***************************************************************************)
C5_EnteringRunsExitOfPrevious ==
    \A mode \in {CROP, FREE_DRAWING, TEXT} :
        state \notin {NORMAL, mode} =>
            \A e \in Enter(Editor, mode) :
                ~e.thrown => e.state = mode /\ ExitRanOnce(state, e)

\* Every command executed or pushed during the call recorded in e met Normal mode.
MarksInNormal(e) == \A i \in Entries(e, "mark") : e.log[i].str = NORMAL

(***************************************************************************)
(* C6 as claimed: at each moment a command is executed or pushed, through  *)
(* execute() or through the automatic recording of an object added by      *)
(* addIcon, addText or free drawing, the current mode is Normal.           *)
(***************************************************************************)
C6_CommandsOnlyInNormal ==
    \A e \in ExecuteCalls(Editor) \cup AddCalls(Editor) :
        MarksInNormal(e)

(***************************************************************************)
(* C6 amended: at each moment a command is executed or pushed through      *)
(* execute(), the current mode is Normal; the automatic recording of an    *)
(* added object happens in the mode the editor is in when the object is    *)
(* added (Text for addText, the unchanged current mode for addIcon and for *)
(* a drawn path).                                                          *)
(***************************************************************************)
C6_ExecuteOnlyInNormal ==
    /\ \A e \in ExecuteCalls(Editor) : MarksInNormal(e)
    /\ \A text \in Texts :
           LET e == addText(Editor, text)
           IN  e.state = TEXT /\ \A i \in Entries(e, "mark") : e.log[i].str = TEXT
    /\ LET e == addIcon(Editor)
       IN  e.state = state /\ \A i \in Entries(e, "mark") : e.log[i].str = state
    /\ drawing =>
           LET e == drawPath(Editor)
           IN  e.state = state /\ \A i \in Entries(e, "mark") : e.log[i].str = state

C6_Witness ==
    /\ state = CROP
    /\ Entries(rotate(Editor, "rotate", 10), "mark") # {}
    /\ Completed(Editor, rotate(Editor, "rotate", 10))
    /\ Entries(addText(Editor, "t"), "mark") # {}
    /\ Entries(addIcon(Editor), "mark") # {}

(***************************************************************************)
(* C7 as claimed: the crop collaborator is active only if the mode is      *)
(* Crop, and the free-drawing collaborator is active only if the mode is   *)
(* Free-Drawing.                                                           *)
(***************************************************************************)
C7_ActiveOnlyInOwnMode ==
    /\ cropping => state = CROP
    /\ drawing => state = FREE_DRAWING

(***************************************************************************)
(* C8 as claimed: startCropping() in Crop mode, startFreeDrawing() in      *)
(* Free-Drawing mode and startTextMode() in Text mode are no-ops: the mode *)
(* and every canvas setting are unchanged, no object is removed, no        *)
(* collaborator is called and no notification is emitted.                  *)
(***************************************************************************)
C8_EnteringActiveModeIsNoop ==
    \A mode \in {CROP, FREE_DRAWING, TEXT} :
        state = mode =>
            LET e == CASE mode = CROP -> startCropping(Editor)
                       [] mode = FREE_DRAWING -> startFreeDrawing(Editor)
                       [] mode = TEXT -> startTextMode(Editor)
            IN  /\ e.state = state
                /\ e.selection = selection
                /\ e.cursor = cursor
                /\ e.listening = listening
                /\ e.canvas = canvas
                /\ Entries(e, "component") = {}
                /\ Entries(e, "fire") = {}

\* The call recorded in e did nothing to e0 that can be observed: the same
\* objects, canvas settings, mode and stacks, no collaborator called, no
\* notification.
Unobservable(e0, e) ==
    /\ e.state = e0.state
    /\ e.canvas = e0.canvas
    /\ e.objs = e0.objs
    /\ e.selection = e0.selection
    /\ e.cursor = e0.cursor
    /\ e.listening = e0.listening
    /\ e.cropping = e0.cropping
    /\ e.drawing = e0.drawing
    /\ e.undoStack = e0.undoStack
    /\ e.redoStack = e0.redoStack
    /\ Entries(e, "component") = {}
    /\ Entries(e, "fire") = {}
    /\ ~e.thrown

C10_EndCroppingWithoutDescriptor ==
    state = CROP =>
        \A isApplying \in BOOLEAN :
            cropData(Editor, isApplying).null =>
                LET e == endCropping(Editor, isApplying)
                IN  /\ e.state = NORMAL
                    /\ Fired(e, "endCropping") = 1
                    /\ Fired(e, "loadImage") = 0
                    /\ Entries(e, "mark") = {}
                    /\ e.nextCmd = nextCmd
                    /\ e.undoStack = undoStack
                    /\ e.redoStack = redoStack
                    /\ ~e.cropping
                    /\ ~e.thrown

C10_Witness ==
    /\ state = CROP
    /\ region
    /\ undoStack # <<>>
    /\ redoStack # <<>>
    /\ cropData(Editor, FALSE).null
    /\ ~cropData(Editor, TRUE).null
    /\ endCropping(Editor, FALSE).state = NORMAL
    /\ endCropping(Editor, FALSE).undoStack = undoStack

(***************************************************************************)
(* C11 as claimed: in Crop mode with a crop region defined,                *)
(* endCropping(true) pushes exactly one command, of load-image kind,       *)
(* carrying the URL and the name of the descriptor the crop collaborator   *)
(* returned, and the mode is Normal afterwards.                            *)
(***************************************************************************)
C11_ApplyCropPushesOneLoad ==
    state = CROP /\ cropping /\ region =>
        LET e == endCropping(Editor, TRUE)
            d == cropData(Editor, TRUE)
        IN  /\ ~d.null
            /\ ~e.thrown
            /\ e.state = NORMAL
            /\ e.nextCmd = nextCmd + 1
            /\ e.undoStack = Push(undoStack, Top(e.undoStack))
            /\ Top(e.undoStack).kind = "loadImage"
            /\ Top(e.undoStack).url = d.url
            /\ Top(e.undoStack).name = d.imageName

(***************************************************************************)
(* C12 as claimed: a text object of a Text-mode session whose text is      *)
(* still empty when endTextMode() runs is removed from the document, is    *)
(* not recorded by any command on the undo stack, and is not put back by   *)
(* a following undo() or redo().                                           *)
(***************************************************************************)
OnStack(s, obj) == \E i \in DOMAIN s : s[i].obj = obj

C12_EmptyTextNeverRecorded ==
    state = TEXT =>
        \A o \in canvas \ {0} :
            isType(Editor, o, "text") /\ objs[o].text = "" =>
                LET e == endTextMode(Editor)
                IN  /\ o \notin e.canvas
                    /\ ~OnStack(e.undoStack, o)
                    /\ o \notin undo(e).canvas
                    /\ o \notin redo(e).canvas

(***************************************************************************)
(* C13: for every command, the stack change and its stack notifications    *)
(* come before the command's on-apply callback: every notification an      *)
(* on-apply callback emits (loadImage, clearImage, flipImage, rotateImage, *)
(* clearObjects) is emitted with the command already on top of its new     *)
(* stack and gone from the old one, and after every stack notification of  *)
(* the call.  The stack notifications are, for a call through execute():   *)
(* emptyRedoStack if the redo stack held anything, then pushUndoStack; for *)
(* undo(): pushRedoStack, then emptyUndoStack if the undo stack became     *)
(* empty; for redo(): the mirror image.                                    *)
(***************************************************************************)
OnApplyEvents == {"loadImage", "clearImage", "flipImage", "rotateImage", "clearObjects"}

OnApply(e) == {i \in Entries(e, "fire") : e.log[i].n \in OnApplyEvents}

\* The public calls whose command carries an on-apply callback, applied to e.
ApplyCalls(e) ==
    {clearObjects(e), loadImageFromURL(e, "u", "n"), loadImageFromFile(e, "n", ""),
     endCropping(e, TRUE)}
    \cup {flip(e, type) : type \in FlipTypes}
    \cup {rotate(e, "rotate", a) : a \in RotateAngles}
    \cup {rotate(e, "setAngle", a) : a \in SetAngles}

IsStackEvent(entry) == entry.k = "fire" /\ entry.n \in StackEvents

\* The stack notifications of the call e, in the order they were emitted.
StackNotes(e) ==
    LET notes == SelectSeq(e.log, IsStackEvent)
    IN  [i \in DOMAIN notes |-> notes[i].n]

\* Every on-apply notification of the call sees undoTop and redoTop on top of
\* the stacks and follows every stack notification of the call.
AfterStacks(e, undoTop, redoTop) ==
    \A i \in OnApply(e) :
        /\ e.log[i].undo = undoTop
        /\ e.log[i].redo = redoTop
        /\ \A j \in i + 1 .. Len(e.log) : ~IsStackEvent(e.log[j])

\* The notifications of a push that emptied the other stack (emptied) or not.
Notes(pushed, emptiedName, emptied) ==
    IF emptied THEN <<pushed, emptiedName>> ELSE <<pushed>>

C13_StacksSettledBeforeOnApply ==
    /\ \A e \in ApplyCalls(Editor) :
           Completed(Editor, e) =>
               /\ OnApply(e) # {}
               /\ AfterStacks(e, nextCmd + 1, 0)
               /\ StackNotes(e) = IF redoStack # <<>>
                                  THEN <<"emptyRedoStack", "pushUndoStack">>
                                  ELSE <<"pushUndoStack">>
    /\ undoStack # <<>> =>
           LET e == undo(Editor)
           IN  ~e.thrown =>
                   /\ AfterStacks(e, TopId(Pop(undoStack)), Top(undoStack).id)
                   /\ StackNotes(e) = Notes("pushRedoStack", "emptyUndoStack",
                                            Len(undoStack) = 1)
    /\ redoStack # <<>> =>
           LET e == redo(Editor)
           IN  ~e.thrown =>
                   /\ AfterStacks(e, Top(redoStack).id, TopId(Pop(redoStack)))
                   /\ StackNotes(e) = Notes("pushUndoStack", "emptyRedoStack",
                                            Len(redoStack) = 1)

C13_Witness ==
    /\ Len(undoStack) = 1
    /\ Top(undoStack).kind = "loadImage"
    /\ redoStack # <<>>
    /\ Top(redoStack).kind = "flipImage"
    /\ OnApply(undo(Editor)) # {}
    /\ Fired(undo(Editor), "emptyUndoStack") = 1
    /\ OnApply(redo(Editor)) # {}
    /\ OnApply(rotate(Editor, "rotate", 10)) # {}
    /\ Fired(rotate(Editor, "rotate", 10), "emptyRedoStack") = 1

(***************************************************************************)
(* C14: if the execute action of a command fails during invoke or redo,    *)
(* or its undo action fails during undo, both stacks hold exactly the same *)
(* commands in the same order as before the call, no stack notification    *)
(* and no on-apply notification is emitted, and the failure reaches the    *)
(* caller.                                                                 *)
(***************************************************************************)
\* The action the Invoker is about to run fails: execute() has ended every mode
\* before the Invoker sees the command.
ExecuteFails(e, command) == ~CmdExecute(endAll(e), command).ok
UndoFails(e, command) == ~CmdUndo(endAll(e), command).ok

\* The call e left both stacks of the editor alone and failed silently towards
\* the listeners.
Unmoved(e) ==
    /\ e.undoStack = undoStack
    /\ e.redoStack = redoStack
    /\ NoStackEvent(e)
    /\ OnApply(e) = {}
    /\ e.thrown

NullResult == Res(TRUE, 0, "")

C15_FailedLoadRaisesNoFault ==
    /\ ~callbackAfterImageLoading(Editor, NullResult).thrown
    /\ Fired(callbackAfterImageLoading(Editor, NullResult), "loadImage") = 0
    /\ ~loadImageUndoCallback(Editor, NullResult).thrown
    /\ Fired(loadImageUndoCallback(Editor, NullResult), "clearImage") = 1
    /\ \A name \in Names \ {""} : ~loadImageFromURL(Editor, "bad", name).thrown

(***************************************************************************)
(* C16: clearUndoStack() on a non-empty undo stack empties it and emits    *)
(* exactly one emptyUndoStack notification (and nothing else); a second    *)
(* call right after emits none.  The same holds for clearRedoStack() and   *)
(* emptyRedoStack.                                                         *)
(***************************************************************************)
C16_ClearNotifiesOnce ==
    /\ undoStack # <<>> =>
           LET e == clearUndoStack(Editor)
               e2 == clearUndoStack([e EXCEPT !.log = <<>>])
           IN  /\ e.undoStack = <<>>
               /\ Fired(e, "emptyUndoStack") = 1
               /\ Len(e.log) = 1
               /\ ~e.thrown
               /\ e2.undoStack = <<>>
               /\ e2.log = <<>>
               /\ ~e2.thrown
    /\ redoStack # <<>> =>
           LET e == clearRedoStack(Editor)
               e2 == clearRedoStack([e EXCEPT !.log = <<>>])
           IN  /\ e.redoStack = <<>>
               /\ Fired(e, "emptyRedoStack") = 1
               /\ Len(e.log) = 1
               /\ ~e.thrown
               /\ e2.redoStack = <<>>
               /\ e2.log = <<>>
               /\ ~e2.thrown

C16_Witness ==
    /\ undoStack # <<>>
    /\ redoStack # <<>>
    /\ Fired(clearUndoStack(Editor), "emptyUndoStack") = 1
    /\ Fired(clearRedoStack(Editor), "emptyRedoStack") = 1
    /\ clearUndoStack(clearUndoStack(Editor)) = clearUndoStack(Editor)

(***************************************************************************)
(* C17: clearUndoStack() leaves the redo stack and the mode unchanged;     *)
(* clearRedoStack() leaves the undo stack and the mode unchanged.          *)
(***************************************************************************)
C17_ClearLeavesOtherStackAndMode ==
    /\ clearUndoStack(Editor).redoStack = redoStack
    /\ clearUndoStack(Editor).state = state
    /\ clearRedoStack(Editor).undoStack = undoStack
    /\ clearRedoStack(Editor).state = state

C17_Witness ==
    /\ state # NORMAL
    /\ undoStack # <<>>
    /\ redoStack # <<>>
    /\ clearUndoStack(Editor).undoStack = <<>>
    /\ clearUndoStack(Editor).redoStack = redoStack
    /\ clearRedoStack(Editor).redoStack = <<>>
    /\ clearRedoStack(Editor).undoStack = undoStack

(***************************************************************************)
(* C18: undoing a load-image command emits clearImage, and no loadImage,   *)
(* when no image was loaded before that command; it emits one loadImage    *)
(* describing the restored previous image, and no clearImage, when there   *)
(* was one.                                                                *)
(***************************************************************************)
\* The image the notification loadImage of the call e describes.
LoadImagePayloads(e) ==
    {e.log[i].str : i \in {j \in Entries(e, "fire") : e.log[j].n = "loadImage"}}

C18_UndoLoadNotifies ==
    undoStack # <<>> /\ Top(undoStack).kind = "loadImage" =>
        LET e == undo(Editor)
            previous == Top(undoStack).store.image
        IN  /\ ~e.thrown
            /\ e.image = previous
            /\ IF previous = NoImage
               THEN Fired(e, "clearImage") = 1 /\ Fired(e, "loadImage") = 0
               ELSE /\ Fired(e, "loadImage") = 1
                    /\ Fired(e, "clearImage") = 0
                    /\ LoadImagePayloads(e) = {previous.name}

C18_Witness ==
    /\ Len(undoStack) = 2
    /\ Top(undoStack).kind = "loadImage"
    /\ Top(undoStack).store.image # NoImage
    /\ Fired(undo(Editor), "loadImage") = 1
    /\ Top(undo(Editor).undoStack).kind = "loadImage"
    /\ Top(undo(Editor).undoStack).store.image = NoImage
    /\ Fired(undo([undo(Editor) EXCEPT !.log = <<>>]), "clearImage") = 1

(***************************************************************************)
(* C19: rotate(d) makes the angle the previous angle plus d and            *)
(* setAngle(a) makes it a; both announce the new angle with rotateImage.   *)
(* undo() of the command restores the angle it had before, redo()          *)
(* re-applies it.  From angle 0: rotate(10), rotate(-95), undo(), undo(),  *)
(* redo() yields the angles 10, -85, 10, 0, 10.                            *)
(***************************************************************************)
\* The angles the rotateImage notifications of the call e announce.
RotatePayloads(e) ==
    {e.log[i].num : i \in {j \in Entries(e, "fire") : e.log[j].n = "rotateImage"}}

Again(e) == [e EXCEPT !.log = <<>>]

RotateLaw(type, a, expected) ==
    LET e1 == rotate(Editor, type, a)
        e2 == undo(Again(e1))
        e3 == redo(Again(e2))
    IN  /\ ~e1.thrown /\ ~e2.thrown /\ ~e3.thrown
        /\ e1.angle = expected /\ RotatePayloads(e1) = {expected}
        /\ e2.angle = angle /\ RotatePayloads(e2) = {angle}
        /\ e3.angle = expected /\ RotatePayloads(e3) = {expected}

C19_RotateUndoRedo ==
    /\ \A d \in RotateAngles : RotateLaw("rotate", d, angle + d)
    /\ \A a \in SetAngles : RotateLaw("setAngle", a, a)
    /\ angle = 0 =>
           LET e1 == rotate(Editor, "rotate", 10)
               e2 == rotate(e1, "rotate", -95)
               e3 == undo(e2)
               e4 == undo(e3)
               e5 == redo(e4)
           IN  <<e1.angle, e2.angle, e3.angle, e4.angle, e5.angle>>
                   = <<10, -85, 10, 0, 10>>

C19_Witness ==
    /\ angle = 10
    /\ Len(undoStack) = 1
    /\ Top(undoStack).kind = "rotateImage"
    /\ rotate(Editor, "rotate", -95).angle = -85
    /\ undo(rotate(Editor, "rotate", -95)).angle = 10
    /\ undo(Editor).angle = 0
    /\ redo(undo(Editor)).angle = 10
    /\ rotate(Editor, "setAngle", 5).angle = 5

(***************************************************************************)
(* C20: objects that re-enter the canvas through the replay of undo() or   *)
(* redo() are not recorded again.  During undo() and redo() the only stack *)
(* changes are the pop of the replayed command and its push onto the other *)
(* stack: no add-object command is created, and replay does not clear the  *)
(* redo stack.  The crop zone is never recorded: putting it on the canvas  *)
(* creates no command and changes neither stack.                           *)
(***************************************************************************)
\* The call e moved the top of stack from onto stack to and did nothing else
\* to the stacks.
Moved(e, from, to, eFrom, eTo) ==
    /\ eFrom = Pop(from)
    /\ Pop(eTo) = to
    /\ Top(eTo).id = Top(from).id
    /\ Top(eTo).kind = Top(from).kind
    /\ e.nextCmd = nextCmd

\* The objects the call e put on the canvas.
Entered(e) == e.canvas \ canvas

\* A replay that fails in the action of its command moves nothing; a redo() whose
\* command was pushed back (mark "push") and whose on-apply callback then threw
\* has moved its command like any other.

C20_ReplayRecordsNothing ==
    /\ undoStack # <<>> =>
           LET e == undo(Editor)
           IN  IF e.thrown
               THEN e.undoStack = undoStack /\ e.redoStack = redoStack
                    /\ e.nextCmd = nextCmd
               ELSE Moved(e, undoStack, redoStack, e.undoStack, e.redoStack)
    /\ redoStack # <<>> =>
           LET e == redo(Editor)
           IN  IF e.thrown /\ Entries(e, "mark") = {}
               THEN e.undoStack = undoStack /\ e.redoStack = redoStack
                    /\ e.nextCmd = nextCmd
               ELSE Moved(e, redoStack, undoStack, e.redoStack, e.undoStack)
    /\ state # CROP =>
           LET e == startCropping(Editor)
           IN  /\ e.undoStack = undoStack
               /\ e.redoStack = redoStack
               /\ e.nextCmd = nextCmd
               /\ Fired(e, "addObject") = 0

C20_Witness ==
    /\ undoStack # <<>>
    /\ Top(undoStack).kind = "clearObjects"
    /\ ~undo(Editor).thrown
    /\ Entered(undo(Editor)) # {}
    /\ LET e2 == undo(undo(Editor))
       IN  /\ e2.redoStack # <<>>
           /\ Top(e2.redoStack).kind = "addObject"
           /\ ~redo(e2).thrown
           /\ redo(e2).canvas \ e2.canvas = {Top(e2.redoStack).obj}
           /\ redo(e2).nextCmd = nextCmd
    /\ ~cropping
    /\ Entered(startCropping(Editor)) = {0}

(***************************************************************************)
(* C21: stack notifications track stack emptiness exactly.  After every    *)
(* operation, a listener that sets undoAvailable on pushUndoStack and      *)
(* resets it on emptyUndoStack, and sets redoAvailable on pushRedoStack    *)
(* and resets it on emptyRedoStack, agrees with whether each stack is      *)
(* non-empty.                                                              *)
(***************************************************************************)
C21_FlagsTrackEmptiness ==
    ui.on =>
        /\ ui.undoAvailable = (undoStack # <<>>)
        /\ ui.redoAvailable = (redoStack # <<>>)

\* A new command is about to empty a redo stack the listener knows to be
\* non-empty, and clearUndoStack() to empty the undo stack.
C21_Witness ==
    /\ ui.on
    /\ ui.undoAvailable /\ undoStack # <<>>
    /\ ui.redoAvailable /\ redoStack # <<>>
    /\ ~Listen(addIcon(Editor)).redoAvailable
    /\ Listen(addIcon(Editor)).undoAvailable
    /\ ~Listen(clearUndoStack(Editor)).undoAvailable
    /\ Listen(redo(Editor)).redoAvailable = (Len(redoStack) > 1)

(***************************************************************************)
(* C22 as claimed: in every reachable state no command is on both the undo *)
(* stack and the redo stack and no command occurs twice on a stack;        *)
(* undo() and redo() on a non-empty source stack move exactly the top      *)
(* command to the top of the other stack and keep the total number of      *)
(* commands on the two stacks unchanged.                                   *)
(***************************************************************************)
Ids(s) == {s[i].id : i \in DOMAIN s}

\* No command twice on a stack, none on both.
EachCommandOnce(e) ==
    /\ Cardinality(Ids(e.undoStack)) = Len(e.undoStack)
    /\ Cardinality(Ids(e.redoStack)) = Len(e.redoStack)
    /\ Ids(e.undoStack) \cap Ids(e.redoStack) = {}

C22_CommandsMoveBetweenStacks ==
    /\ EachCommandOnce(Editor)
    /\ undoStack # <<>> =>
           LET e == undo(Editor)
           IN  /\ e.undoStack = Pop(undoStack)
               /\ Pop(e.redoStack) = redoStack
               /\ Top(e.redoStack).id = Top(undoStack).id
    /\ redoStack # <<>> =>
           LET e == redo(Editor)
           IN  /\ e.redoStack = Pop(redoStack)
               /\ Pop(e.undoStack) = undoStack
               /\ Top(e.undoStack).id = Top(redoStack).id

(***************************************************************************)
(* C23: a failing collaborator start is not rolled back to the mode held   *)
(* before the call.  If cropper.start() fails inside startCropping() the   *)
(* mode is left as Crop and no startCropping notification is emitted; if   *)
(* freeDrawing.start() fails inside startFreeDrawing() the mode is left as *)
(* Normal and no startFreeDrawing notification is emitted.  In both cases  *)
(* the failure reaches the caller and the previously active mode has       *)
(* already been exited: its exit actions ran exactly once.                 *)
(***************************************************************************)
C23_FailedStartNotRolledBack ==
    /\ state # CROP =>
           LET e == startCroppingWith(Editor, TRUE)
           IN  /\ e.thrown
               /\ e.state = CROP
               /\ Fired(e, "startCropping") = 0
               /\ Called(e, "cropper.start") = 1
               /\ state # NORMAL => ExitRanOnce(state, e)
    /\ state # FREE_DRAWING =>
           LET e == startFreeDrawingWith(Editor, TRUE)
           IN  /\ e.thrown
               /\ e.state = NORMAL
               /\ Fired(e, "startFreeDrawing") = 0
               /\ Called(e, "freeDrawing.start") = 1
               /\ state # NORMAL => ExitRanOnce(state, e)

C23_Witness ==
    /\ state = TEXT
    /\ listening
    /\ startCroppingWith(Editor, TRUE).thrown
    /\ startCroppingWith(Editor, TRUE).state = CROP
    /\ ~startCroppingWith(Editor, TRUE).listening
    /\ startFreeDrawingWith(Editor, TRUE).thrown
    /\ startFreeDrawingWith(Editor, TRUE).state = NORMAL
    /\ ~startFreeDrawingWith(Editor, TRUE).listening

(***************************************************************************)
(* C24 as claimed: over any sequence of public calls, the startCropping    *)
(* and endCropping notifications strictly alternate, beginning with        *)
(* startCropping, and so do startFreeDrawing and endFreeDrawing: no call   *)
(* emits a tool's start notification while the listener's flag for that    *)
(* tool is set, nor its end notification while the flag is not set.        *)
(***************************************************************************)
C24_StartEndAlternate ==
    ui.tools => ~ui.dup

====
